---- MODULE Spec2Model ----
(***************************************************************************)
(* Model of the three bama.ir Samand scrapers:                             *)
(*   "samand" : src/bama_samand_scraper.py      (HTML, scrape_listings)    *)
(*   "html"   : src/bama_scraper/bama_scraper.py (HTML, scrape_bama)       *)
(*   "api"    : src/scripts/bama_scraper.py      (JSON API, scrape_bama)   *)
(*                                                                         *)
(* A text is a sequence of characters.  A character is written as a        *)
(* string: an ASCII character is itself ("1", ",", "k"), a Persian letter  *)
(* is written by its name ("sin", "mim"), the Persian comma is "fa_comma", *)
(* the Persian digits are "p0".."p9", the Arabic-Indic digits "a0".."a9".  *)
(* A URL is a sequence of segments; the code only tests a URL's prefix,    *)
(* concatenates and compares URLs, so segments are kept whole.             *)
(* Python's None is NONE where a text is expected, the string "None" where *)
(* an enumeration is expected, and <<>> where Optional[int] is expected    *)
(* (a present integer n is <<n>>).  "No listing" is <<>>, a listing l is   *)
(* <<l>>.                                                                  *)
(***************************************************************************)
EXTENDS Integers, Sequences, FiniteSets, TLC

\* ------------------------------------------------------------------------
\* Characters
\* ------------------------------------------------------------------------
AsciiDigits == <<"0", "1", "2", "3", "4", "5", "6", "7", "8", "9">>
PersianDigitChars == <<"p0", "p1", "p2", "p3", "p4", "p5", "p6", "p7", "p8", "p9">>
ArabicDigitChars == <<"a0", "a1", "a2", "a3", "a4", "a5", "a6", "a7", "a8", "a9">>

Range(s) == {s[i] : i \in 1..Len(s)}

IsAsciiDigit(c) == c \in Range(AsciiDigits)
IsPersianDigit(c) == c \in Range(PersianDigitChars)

\* \d of a Python 3 str pattern: any Unicode decimal digit
IsDigit(c) == c \in Range(AsciiDigits) \cup Range(PersianDigitChars) \cup Range(ArabicDigitChars)

\* \s
SpaceChars == {" ", "\t", "\n"}
IsSpace(c) == c \in SpaceChars

IndexIn(s, c) == CHOOSE i \in 1..Len(s) : s[i] = c

\* int() of one decimal digit character
DigitVal(c) ==
    IF IsAsciiDigit(c) THEN IndexIn(AsciiDigits, c) - 1
    ELSE IF IsPersianDigit(c) THEN IndexIn(PersianDigitChars, c) - 1
    ELSE IndexIn(ArabicDigitChars, c) - 1

\* str.translate(PERSIAN_DIGITS) on one character
TranslateChar(c) == IF IsPersianDigit(c) THEN AsciiDigits[IndexIn(PersianDigitChars, c)] ELSE c

PERSIAN_DIGITS(text) == [i \in 1..Len(text) |-> TranslateChar(text[i])]

\* str.lower() on the ASCII letters the keywords use
UpperChars == <<"A", "C", "I", "K", "L", "M", "N", "O", "R", "T", "U">>
LowerChars == <<"a", "c", "i", "k", "l", "m", "n", "o", "r", "t", "u">>
LowerChar(c) == IF c \in Range(UpperChars) THEN LowerChars[IndexIn(UpperChars, c)] ELSE c
Lower(text) == [i \in 1..Len(text) |-> LowerChar(text[i])]

\* ------------------------------------------------------------------------
\* Generic text helpers
\* ------------------------------------------------------------------------
RECURSIVE Filter(_, _)
Filter(text, keep) ==
    IF text = <<>> THEN <<>>
    ELSE (IF Head(text) \in keep THEN <<Head(text)>> ELSE <<>>) \o Filter(Tail(text), keep)

\* text[:n]
Slice(text, n) == SubSeq(text, 1, IF Len(text) < n THEN Len(text) ELSE n)

\* the literal w occurs in text at index i
MatchAt(text, i, w) ==
    /\ i >= 1
    /\ i + Len(w) - 1 <= Len(text)
    /\ \A k \in 1..Len(w) : text[i + k - 1] = w[k]

\* w in text
Contains(text, w) == \E i \in 1..Len(text) : MatchAt(text, i, w)

\* first index >= i whose character is not in the class, Len(text)+1 if none
RECURSIVE RunEnd(_, _, _)
RunEnd(text, i, class) ==
    IF i > Len(text) \/ text[i] \notin class THEN i
    ELSE RunEnd(text, i + 1, class)

DigitChars == Range(AsciiDigits) \cup Range(PersianDigitChars) \cup Range(ArabicDigitChars)

\* first index >= i whose character is in the class, Len(text)+1 if none
RECURSIVE RunEndNot(_, _, _)
RunEndNot(text, i, class) ==
    IF i > Len(text) \/ text[i] \in class THEN i
    ELSE RunEndNot(text, i + 1, class)

\* the smallest member of a non-empty set of integers
Min(S) == CHOOSE m \in S : \A n \in S : m <= n
Max(S) == CHOOSE m \in S : \A n \in S : m >= n

\* str.strip()
RECURSIVE LStrip(_)
LStrip(text) == IF text # <<>> /\ IsSpace(Head(text)) THEN LStrip(Tail(text)) ELSE text
RECURSIVE RStrip(_)
RStrip(text) ==
    IF text # <<>> /\ IsSpace(text[Len(text)]) THEN RStrip(SubSeq(text, 1, Len(text) - 1)) ELSE text
Strip(text) == RStrip(LStrip(text))

\* str.replace(w, "")
RECURSIVE Remove(_, _)
Remove(text, w) ==
    IF text = <<>> THEN <<>>
    ELSE IF MatchAt(text, 1, w) THEN Remove(SubSeq(text, Len(w) + 1, Len(text)), w)
    ELSE <<Head(text)>> \o Remove(Tail(text), w)

\* int() of a non-empty text of decimal digits
RECURSIVE ToInt(_)
ToInt(digits) ==
    IF digits = <<>> THEN 0
    ELSE 10 * ToInt(SubSeq(digits, 1, Len(digits) - 1)) + DigitVal(digits[Len(digits)])

\* " ".join(parts)
RECURSIVE Join(_)
Join(parts) ==
    IF parts = <<>> THEN <<>>
    ELSE IF Len(parts) = 1 THEN parts[1]
    ELSE parts[1] \o <<" ">> \o Join(Tail(parts))

\* filter(None, parts)
RECURSIVE NonEmpty(_)
NonEmpty(parts) ==
    IF parts = <<>> THEN <<>>
    ELSE (IF Head(parts) # <<>> THEN <<Head(parts)>> ELSE <<>>) \o NonEmpty(Tail(parts))

NONE == <<"None">>

\* ------------------------------------------------------------------------
\* Words of the source language
\* ------------------------------------------------------------------------
W_toman == <<"te", "vav", "mim", "alef", "nun">>
W_kilometr == <<"kaf", "ye", "lam", "vav", "mim", "te", "re">>
W_km == <<"k", "m">>
W_kilometer == <<"k", "i", "l", "o", "m", "e", "t", "e", "r">>
W_rang == <<"re", "nun", "gaf">>
W_color == <<"c", "o", "l", "o", "r">>
W_dande == <<"dal", "nun", "dal", "he">>
W_dasti == <<"dal", "sin", "te", "ye">>
W_manual == <<"m", "a", "n", "u", "a", "l">>
W_otomat == <<"alef", "te", "vav", "mim", "alef", "te">>
W_otomatik == <<"alef", "te", "vav", "mim", "alef", "te", "ye", "kaf">>
W_automatic == <<"a", "u", "t", "o", "m", "a", "t", "i", "c">>
W_samand == <<"sin", "mim", "nun", "dal">>
W_tolid == <<"te", "vav", "lam", "ye", "dal">>
W_gheymat == <<"qaf", "ye", "mim", "te">>
W_sefid == <<"sin", "fe", "ye", "dal">>
W_meshki == <<"mim", "shin", "kaf", "ye">>

\* ------------------------------------------------------------------------
\* Configuration shared by the three scripts
\* ------------------------------------------------------------------------
MIN_YEAR == 1385
ORIGIN == <<"http", "s://bama.ir">>
BASE_URL == ORIGIN \o <<"/car/samand">>

\* an element found by a selector is <<text>>, a missing element is <<>>;
\* extract_text(element) of the samand script
extract_text(el) == IF el = <<>> THEN <<>> ELSE el[1]

\* ------------------------------------------------------------------------
\* Regular expressions
\* ------------------------------------------------------------------------
\* YEAR_RE.findall(text): the non-overlapping matches of 13\d{2}|14\d{2}
RECURSIVE YearMatches(_, _)
YearMatches(text, i) ==
    LET at == { j \in i..(Len(text) - 3) :
                  /\ text[j] = "1"
                  /\ text[j + 1] \in {"3", "4"}
                  /\ IsDigit(text[j + 2])
                  /\ IsDigit(text[j + 3]) }
    IN  IF at = {} THEN <<>>
        ELSE LET j == Min(at)
             IN  <<SubSeq(text, j, j + 3)>> \o YearMatches(text, j + 4)

NumChars == DigitChars \cup {".", ","}

\* group(1) of (\d[\d\.,]*)\s*(?:unit|...)? searched in text, <<>> when the
\* search finds nothing: the unit is optional, so the leftmost digit starts
\* the match and the group is the run of digits, dots and commas from there
PriceGroup(text) ==
    LET starts == {i \in 1..Len(text) : IsDigit(text[i])}
    IN  IF starts = {} THEN <<>>
        ELSE LET i == Min(starts)
             IN  SubSeq(text, i, RunEnd(text, i + 1, NumChars) - 1)

\* group(1) of (\d[\d\.,]*)\s*(?:unit|...) searched case-insensitively in
\* text, <<>> when the search finds nothing
MileageGroup(text, units) ==
    LET low == Lower(text)
        ok(i) == /\ IsDigit(text[i])
                 /\ LET e == RunEnd(text, i + 1, NumChars)
                        s == RunEnd(text, e, SpaceChars)
                    IN  \E u \in units : MatchAt(low, s, u)
        starts == {i \in 1..Len(text) : ok(i)}
    IN  IF starts = {} THEN <<>>
        ELSE LET i == Min(starts)
             IN  SubSeq(text, i, RunEnd(text, i + 1, NumChars) - 1)

\* ------------------------------------------------------------------------
\* src/bama_samand_scraper.py
\* ------------------------------------------------------------------------
\* re.sub(r"[^\d]", "", text.translate(PERSIAN_DIGITS))
normalize_digits(text) == Filter(PERSIAN_DIGITS(text), DigitChars)

RECURSIVE FirstYearAtLeast(_)
FirstYearAtLeast(matches) ==
    IF matches = <<>> THEN <<>>
    ELSE LET year == ToInt(normalize_digits(Head(matches)))
         IN  IF year >= MIN_YEAR THEN <<year>> ELSE FirstYearAtLeast(Tail(matches))

samand_parse_year(text) == FirstYearAtLeast(YearMatches(text, 1))

SAMAND_MILEAGE_UNITS == {W_kilometr, W_km}

\* parse_numeric(PRICE_RE, text)
samand_parse_price(text) ==
    LET g == PriceGroup(text)
    IN  IF g = <<>> THEN <<>>
        ELSE LET digits == normalize_digits(g)
             IN  IF digits # <<>> THEN <<ToInt(digits)>> ELSE <<>>

\* parse_numeric(MILEAGE_RE, text)
samand_parse_mileage(text) ==
    LET g == MileageGroup(text, SAMAND_MILEAGE_UNITS)
    IN  IF g = <<>> THEN <<>>
        ELSE LET digits == normalize_digits(g)
             IN  IF digits # <<>> THEN <<ToInt(digits)>> ELSE <<>>

\* the automatic keywords tried before the manual ones
derive_transmission_AutoFirst(text) ==
    LET text_lower == Lower(text)
    IN  IF Contains(text_lower, W_otomat) \/ Contains(text_lower, W_automatic) THEN "Automatic"
        ELSE IF Contains(text_lower, W_dande) \/ Contains(text_lower, W_manual) THEN "Manual"
        ELSE "None"

derive_transmission(text) ==
    LET text_lower == Lower(text)
    IN  IF Contains(text_lower, W_dande) \/ Contains(text_lower, W_manual) THEN "Manual"
        ELSE IF Contains(text_lower, W_otomat) \/ Contains(text_lower, W_automatic) THEN "Automatic"
        ELSE "None"

\* where the group of (?:label)\s*:?\s*([^\s,]+) starts when the label ends
\* right before index j, 0 when the pattern does not match there
SamandColorStart(text, j) ==
    LET s1 == RunEnd(text, j, SpaceChars)
        stop == SpaceChars \cup {","}
    IN  IF s1 > Len(text) THEN 0
        ELSE IF text[s1] = ":"
             THEN LET s2 == RunEnd(text, s1 + 1, SpaceChars)
                  IN  IF s2 <= Len(text) /\ text[s2] \notin stop THEN s2 ELSE s1
             ELSE IF text[s1] \notin stop THEN s1 ELSE 0

derive_color(text) ==
    LET low == Lower(text)
        labelEnd(i) == IF MatchAt(low, i, W_rang) THEN i + Len(W_rang)
                       ELSE IF MatchAt(low, i, W_color) THEN i + Len(W_color)
                       ELSE 0
        ok(i) == labelEnd(i) > 0 /\ SamandColorStart(text, labelEnd(i)) > 0
        starts == {i \in 1..Len(text) : ok(i)}
    IN  IF starts = {} THEN NONE
        ELSE LET g == SamandColorStart(text, labelEnd(Min(starts)))
             IN  SubSeq(text, g, RunEndNot(text, g, SpaceChars \cup {","}) - 1)

\* a or b on texts
Or(a, b) == IF a # <<>> THEN a ELSE b

samand_parse_listing_card(card) ==
    LET url == IF card.link THEN ORIGIN \o card.href ELSE BASE_URL
        title == Or(extract_text(card.title_el), extract_text(card.h2_el))
        facts_block == card.facts
        desc == Or(extract_text(card.desc_el), extract_text(card.list_data_el))
        combined_text == Join(NonEmpty(<<title, facts_block, desc, card.text>>))
        year == samand_parse_year(combined_text)
    IN  IF year = <<>> \/ year[1] = 0 \/ year[1] < MIN_YEAR THEN <<>>
        ELSE LET price_text == extract_text(card.price_el)
                 mileage_text == extract_text(card.mileage_el)
                 derived == derive_color(combined_text)
                 color_text == Or(extract_text(card.color_el), derived)
             IN  << [ title |-> Or(title, <<"S", "a", "m", "a", "n", "d">>),
                      price |-> samand_parse_price(Or(price_text, combined_text)),
                      mileage |-> samand_parse_mileage(Or(mileage_text, combined_text)),
                      color |-> IF color_text # <<>> THEN color_text ELSE NONE,
                      production_year |-> year[1],
                      transmission |-> derive_transmission(combined_text),
                      description |-> Or(desc, Slice(combined_text, 240)),
                      url |-> url ] >>

\* ------------------------------------------------------------------------
\* src/bama_scraper/bama_scraper.py
\* ------------------------------------------------------------------------
AGREEMENT == <<"Agreement">>
UNKNOWN == <<"Unknown">>
ZERO == <<"0">>

normalize_persian_digits(text) == IF text = <<>> THEN <<>> ELSE PERSIAN_DIGITS(text)

RECURSIVE FirstYearInRange(_)
FirstYearInRange(matches) ==
    IF matches = <<>> THEN <<>>
    ELSE LET year == ToInt(Head(matches))
         IN  IF MIN_YEAR < year /\ year < 1500 THEN <<year>> ELSE FirstYearInRange(Tail(matches))

extract_year(text) == FirstYearInRange(YearMatches(normalize_persian_digits(text), 1))

extract_price(text) ==
    LET g == PriceGroup(normalize_persian_digits(text))
    IN  IF g # <<>>
        THEN LET price == Remove(Remove(g, <<",">>), <<".">>)
             IN  IF price # <<>> THEN price ELSE AGREEMENT
        ELSE AGREEMENT

HTML_MILEAGE_UNITS == {W_kilometr, W_km, W_kilometer}

extract_mileage(text) ==
    LET g == MileageGroup(normalize_persian_digits(text), HTML_MILEAGE_UNITS)
    IN  IF g # <<>>
        THEN LET mileage == Remove(Remove(g, <<",">>), <<".">>)
             IN  IF mileage # <<>> THEN mileage ELSE ZERO
        ELSE ZERO

COLOR_NAMES ==
    << W_sefid,
       W_meshki,
       <<"nun", "qaf", "re", "he", "zwnj", "alef", "ye">>,
       <<"khe", "alef", "kaf", "sin", "te", "re", "ye">>,
       <<"nun", "vav", "kaf", "zwnj", "mim", "dal", "alef", "dal", "ye">>,
       <<"alef_madda", "be", "ye">>,
       <<"qaf", "re", "mim", "ze">>,
       <<"be", "zhe">>,
       <<"qaf", "he", "vav", "he", "zwnj", "alef", "ye">>,
       <<"ze", "re", "dal">>,
       <<"sin", "be", "ze">>,
       <<"nun", "alef", "re", "nun", "jim", "ye">> >>

ColorStop == SpaceChars \cup {",", "fa_comma"}

\* where the group of label[:\s]+([^\s,fa_comma]+) starts when the label
\* ends right before index j, 0 when the pattern does not match there
HtmlColorStart(text, j) ==
    LET m == RunEnd(text, j, SpaceChars \cup {":"})
        cand == {k \in (j + 1)..m : k <= Len(text) /\ text[k] \notin ColorStop}
    IN  IF cand = {} THEN 0 ELSE Max(cand)

\* re.search of one labelled colour pattern; <<>> when there is no match
LabelledColor(text, label) ==
    LET low == Lower(text)
        ok(i) == MatchAt(low, i, label) /\ HtmlColorStart(text, i + Len(label)) > 0
        starts == {i \in 1..Len(text) : ok(i)}
    IN  IF starts = {} THEN <<>>
        ELSE LET g == HtmlColorStart(text, Min(starts) + Len(label))
             IN  SubSeq(text, g, RunEndNot(text, g, ColorStop) - 1)

\* re.search of the alternation of colour names; <<>> when there is no match
NamedColor(text) ==
    LET at(i) == {n \in 1..Len(COLOR_NAMES) : MatchAt(text, i, COLOR_NAMES[n])}
        starts == {i \in 1..Len(text) : at(i) # {}}
    IN  IF starts = {} THEN <<>>
        ELSE COLOR_NAMES[Min(at(Min(starts)))]

extract_color(text) ==
    IF LabelledColor(text, W_rang) # <<>> THEN Strip(LabelledColor(text, W_rang))
    ELSE IF LabelledColor(text, W_color) # <<>> THEN Strip(LabelledColor(text, W_color))
    ELSE IF NamedColor(text) # <<>> THEN Strip(NamedColor(text))
    ELSE UNKNOWN

\* re.search(r'dande\s*dasti', text)
DandeDasti(text) ==
    \E i \in 1..Len(text) :
        /\ MatchAt(text, i, W_dande)
        /\ MatchAt(text, RunEnd(text, i + Len(W_dande), SpaceChars), W_dasti)

html_extract_transmission(text) ==
    LET text_lower == Lower(text)
    IN  IF \/ DandeDasti(text_lower)
           \/ Contains(text_lower, W_manual)
           \/ Contains(text_lower, W_dasti)
        THEN "Manual"
        ELSE IF \/ Contains(text_lower, W_otomat)
                \/ Contains(text_lower, W_automatic)
                \/ Contains(text_lower, W_otomatik)
        THEN "Automatic"
        ELSE "Unknown"

\* href.startswith('http')
StartsWithHttp(href) == href # <<>> /\ Head(href) = "http"

\* elem.get_text(strip=True) if elem else fallback
TextOrElse(el, fallback) == IF el # <<>> THEN el[1] ELSE fallback

html_parse_listing_card(card) ==
    LET card_text == card.text
        normalized_text == normalize_persian_digits(card_text)
        year == extract_year(normalized_text)
    IN  IF year = <<>> \/ year[1] = 0 \/ year[1] <= MIN_YEAR THEN <<>>
        ELSE LET price_text == TextOrElse(card.price_el, card_text)
                 mileage_text == TextOrElse(card.mileage_el, card_text)
                 title == TextOrElse(card.title_el, <<>>)
                 desc == TextOrElse(card.desc_el, <<>>)
                 description == IF desc # <<>>
                                THEN Slice(Strip(title \o <<" ", "-", " ">> \o desc), 200)
                                ELSE Slice(title, 200)
                 url == IF card.link /\ card.href # <<>>
                        THEN (IF StartsWithHttp(card.href) THEN card.href ELSE ORIGIN \o card.href)
                        ELSE BASE_URL
             IN  << [ price |-> extract_price(price_text),
                      mileage |-> extract_mileage(mileage_text),
                      color |-> extract_color(card_text),
                      production_year |-> year[1],
                      transmission |-> html_extract_transmission(card_text),
                      description |-> IF description # <<>> THEN description
                                      ELSE Slice(card_text, 200),
                      url |-> url ] >>

\* ------------------------------------------------------------------------
\* src/scripts/bama_scraper.py
\* ------------------------------------------------------------------------
normalize_text(text) == IF text = <<>> THEN <<>> ELSE PERSIAN_DIGITS(Strip(text))

\* int(normalized) succeeds on a non-empty text of decimal digits (inputs
\* with a sign or underscores are not drawn) and raises ValueError otherwise
api_parse_year(year_str) ==
    IF year_str = <<>> THEN <<>>
    ELSE LET normalized == normalize_text(year_str)
         IN  IF normalized # <<>> /\ \A i \in 1..Len(normalized) : IsDigit(normalized[i])
             THEN LET year == ToInt(normalized)
                  IN  IF MIN_YEAR < year /\ year < 1500 THEN <<year>> ELSE <<>>
             ELSE <<>>

api_extract_transmission(transmission_str) ==
    IF transmission_str = <<>> THEN "Unknown"
    ELSE LET t == Lower(transmission_str)
         IN  IF Contains(t, W_dande) \/ Contains(t, W_manual) THEN "Manual"
             ELSE IF Contains(t, W_otomat) \/ Contains(t, W_automatic) THEN "Automatic"
             ELSE "Unknown"

parse_mileage(mileage_str) ==
    IF mileage_str = <<>> THEN ZERO
    ELSE LET normalized == normalize_text(Remove(Remove(mileage_str, W_km), W_kilometr))
         IN  IF normalized # <<>> THEN normalized ELSE ZERO

\* price_data is the price object; its "price" entry is the text ad.price
parse_price(price_str) ==
    IF price_str # <<>> THEN Remove(price_str, <<",">>) ELSE AGREEMENT

parse_api_listing(ad) ==
    LET year == api_parse_year(ad.year)
    IN  IF year = <<>> \/ year[1] = 0 \/ year[1] <= MIN_YEAR THEN <<>>
        ELSE LET color == Or(Or(ad.color, ad.body_color), UNKNOWN)
                 d0 == Or(ad.description, ad.title)
                 description == IF d0 # <<>> THEN d0
                                ELSE Strip(ad.title \o <<" ", "-", " ">> \o ad.subtitle)
                 url_path == ad.url
             IN  << [ price |-> parse_price(ad.price),
                      mileage |-> parse_mileage(ad.mileage),
                      color |-> color,
                      production_year |-> year[1],
                      transmission |-> api_extract_transmission(ad.transmission),
                      description |-> Slice(description, 200),
                      url |-> IF url_path # <<>> THEN ORIGIN \o url_path ELSE <<>> ] >>

\* ------------------------------------------------------------------------
\* Bounds and inputs of the runs
\* ------------------------------------------------------------------------
MaxLimit == 2
MaxPages == 3
MaxCards == 2
\* the API loop has no page ceiling: the model stops fetching after FetchCap
FetchCap == MaxPages + 1

Variants == {"samand", "html", "api"}

NoEl == <<>>
El(text) == <<text>>

\* a card (HTML fragment) with the given full text and link and no
\* dedicated sub-fragment
PlainCard(text, link, href) ==
    [ text |-> text, link |-> link, href |-> href,
      title_el |-> NoEl, h2_el |-> NoEl, facts |-> <<>>, desc_el |-> NoEl,
      list_data_el |-> NoEl, price_el |-> NoEl, mileage_el |-> NoEl,
      color_el |-> NoEl ]

\* an API ad with the given year text and url path
PlainAd(year, url) ==
    [ year |-> year, url |-> url, price |-> <<>>, mileage |-> <<>>,
      transmission |-> <<>>, color |-> <<>>, body_color |-> <<>>,
      description |-> <<>>, title |-> <<>>, subtitle |-> <<>> ]

Y1390 == <<"1", "3", "9", "0">>
Y1395 == <<"1", "3", "9", "5">>
Y1385 == <<"1", "3", "8", "5">>
Y1380 == <<"1", "3", "8", "0">>

RunCards ==
    { PlainCard(Y1390, TRUE, <<"/car/detail/1">>),
      PlainCard(Y1395, TRUE, <<"/car/detail/2">>),
      PlainCard(Y1385, TRUE, <<"/car/detail/3">>),
      PlainCard(Y1380, TRUE, <<"/car/detail/4">>) }

RunAds ==
    { PlainAd(Y1390, <<"/car/detail/1">>),
      PlainAd(Y1395, <<"/car/detail/2">>),
      PlainAd(Y1385, <<"/car/detail/3">>),
      PlainAd(Y1380, <<"/car/detail/4">>) }

\* the fragment sequences a page can hold
SeqsUpTo(S, n) == UNION {[1..k -> S] : k \in 0..n}
CardPages == SeqsUpTo(RunCards, MaxCards)
AdPages == SeqsUpTo(RunAds, MaxCards)

\* ------------------------------------------------------------------------
\* State
\* ------------------------------------------------------------------------
VARIABLES
    variant,        \* which script runs
    limit,          \* target count
    max_pages,      \* page-count ceiling
    pc,             \* "fetch", "extend", "endpage", "done", "exported", "extract", "extracted"
    page,           \* page / page_index
    collected,      \* collected / collected_cars
    cards,          \* fragments located on the current page
    page_listings,  \* listings scrape_page returned for the current page
    idx,            \* position of the for loop over the page
    existing_urls,  \* html: the set built before the for loop
    metadata,       \* api: metadata of the current response
    fetch_status,   \* "none", "ok", "fail": outcome of the latest fetch
    fetched,        \* page numbers requested so far, in order
    sleeps,         \* page numbers after which time.sleep ran, in order
    page_new_count, \* listings of the current page added to collected
    outcome,        \* "Running", "Done", "Aborted"
    returned,       \* the value returned to the caller
    fs,             \* file system: parent directory, output file
    fs_ops,         \* file-system actions of the export, in order
    export,         \* "none", "raised", "returned", "written"
    frag,           \* extraction on its own: the fragment
    out             \* extraction on its own: the result

vars == << variant, limit, max_pages, pc, page, collected, cards, page_listings,
           idx, existing_urls, metadata, fetch_status, fetched, sleeps,
           page_new_count, outcome, returned, fs, fs_ops, export, frag, out >>

runVars == << page, collected, cards, page_listings, idx, existing_urls, metadata,
              fetch_status, fetched, sleeps, page_new_count, outcome, returned >>
exportVars == << fs, fs_ops, export >>
extractVars == << frag, out >>
configVars == << variant, limit, max_pages >>

NoMetadata == [total_pages |-> 0, has_next |-> FALSE]

FsStates == {f \in [parent : BOOLEAN, file : BOOLEAN, locked : BOOLEAN, alt : {FALSE}] :
                 /\ f.file => f.parent
                 /\ f.locked => f.file}

\* samand: limit and max_pages are arguments; html: max_pages is the local
\* constant 50 ("Safety limit"), scaled here to MaxPages; api: the loop reads
\* no ceiling, max_pages is the configured ceiling it is measured against
Init ==
    /\ variant \in Variants
    /\ limit \in 0..MaxLimit
    /\ max_pages \in IF variant = "samand" THEN 0..MaxPages ELSE {MaxPages}
    /\ pc = "fetch"
    /\ page = 1
    /\ collected = <<>>
    /\ cards = <<>>
    /\ page_listings = <<>>
    /\ idx = 1
    /\ existing_urls = {}
    /\ metadata = NoMetadata
    /\ fetch_status = "none"
    /\ fetched = <<>>
    /\ sleeps = <<>>
    /\ page_new_count = 0
    /\ outcome = "Running"
    /\ returned = <<>>
    /\ fs \in FsStates
    /\ fs_ops = <<>>
    /\ export = "none"
    /\ frag = <<>>
    /\ out = <<>>

\* ------------------------------------------------------------------------
\* scrape_page: the listings of the accepted cards, in card order
\* ------------------------------------------------------------------------
\* parse_listing_card / parse_api_listing on the fragments of the runs,
\* tabulated
SamandParsed == [c \in RunCards |-> samand_parse_listing_card(c)]
HtmlParsed == [c \in RunCards |-> html_parse_listing_card(c)]
ApiParsed == [a \in RunAds |-> parse_api_listing(a)]

RECURSIVE samand_scrape_page(_)
samand_scrape_page(cs) ==
    IF cs = <<>> THEN <<>>
    ELSE SamandParsed[Head(cs)] \o samand_scrape_page(Tail(cs))

RECURSIVE html_scrape_page(_)
html_scrape_page(cs) ==
    IF cs = <<>> THEN <<>>
    ELSE HtmlParsed[Head(cs)] \o html_scrape_page(Tail(cs))

Finish(result, how) ==
    /\ pc' = "done"
    /\ outcome' = how
    /\ returned' = result

\* ------------------------------------------------------------------------
\* src/bama_samand_scraper.py: scrape_listings
\* ------------------------------------------------------------------------
\* session.get succeeds and scrape_page parses the page
SamandFetchOk ==
    /\ variant = "samand" /\ pc = "fetch" /\ page <= max_pages
    /\ \E cs \in CardPages :
        /\ cards' = cs
        /\ page_listings' = samand_scrape_page(cs)
    /\ fetched' = Append(fetched, page)
    /\ fetch_status' = "ok"
    /\ idx' = 1
    /\ pc' = "extend"
    /\ UNCHANGED << configVars, page, collected, existing_urls, metadata, sleeps,
                    outcome, returned, exportVars, extractVars >>
    /\ page_new_count' = 0

\* a failed fetch after which the same page is requested again
SamandFetchFail_Retry ==
    /\ variant = "samand" /\ pc = "fetch" /\ page <= max_pages
    /\ Len(fetched) < MaxPages
    /\ fetched' = Append(fetched, page)
    /\ fetch_status' = "fail"
    /\ cards' = <<>>
    /\ page_listings' = <<>>
    /\ UNCHANGED << configVars, pc, page, collected, idx, existing_urls, metadata,
                    sleeps, outcome, returned, exportVars, extractVars >>
    /\ page_new_count' = 0

\* session.get or raise_for_status raises requests.RequestException: continue
SamandFetchFail ==
    /\ variant = "samand" /\ pc = "fetch" /\ page <= max_pages
    /\ fetched' = Append(fetched, page)
    /\ fetch_status' = "fail"
    /\ cards' = <<>>
    /\ page_listings' = <<>>
    /\ page' = page + 1
    /\ UNCHANGED << configVars, pc, collected, idx, existing_urls, metadata, sleeps,
                    outcome, returned, exportVars, extractVars >>
    /\ page_new_count' = 0

\* one iteration of: for listing in page_listings
SamandCollect ==
    /\ variant = "samand" /\ pc = "extend" /\ idx <= Len(page_listings)
    /\ collected' = Append(collected, page_listings[idx])
    /\ IF Len(collected') >= limit
       THEN Finish(collected', "Done") /\ UNCHANGED idx
       ELSE idx' = idx + 1 /\ UNCHANGED << pc, outcome, returned >>
    /\ UNCHANGED << configVars, page, cards, page_listings, existing_urls, metadata,
                    fetch_status, fetched, sleeps, exportVars, extractVars >>
    /\ page_new_count' = page_new_count + 1

\* after the for loop: break on an empty page_listings, else sleep and go on
SamandEndPage ==
    /\ variant = "samand" /\ pc = "extend" /\ idx > Len(page_listings)
    /\ IF page_listings = <<>>
       THEN Finish(collected, "Done") /\ UNCHANGED << page, sleeps >>
       ELSE /\ sleeps' = Append(sleeps, page)
            /\ page' = page + 1
            /\ pc' = "fetch"
            /\ UNCHANGED << outcome, returned >>
    /\ UNCHANGED << configVars, collected, cards, page_listings, idx, existing_urls,
                    metadata, fetch_status, fetched, exportVars, extractVars >>
    /\ UNCHANGED page_new_count

\* range(1, max_pages + 1) is exhausted: return collected
SamandReturn ==
    /\ variant = "samand" /\ pc = "fetch" /\ page > max_pages
    /\ Finish(collected, "Done")
    /\ UNCHANGED << configVars, page, collected, cards, page_listings, idx,
                    existing_urls, metadata, fetch_status, fetched, sleeps,
                    exportVars, extractVars >>
    /\ UNCHANGED page_new_count

\* ------------------------------------------------------------------------
\* src/bama_scraper/bama_scraper.py: scrape_bama
\* ------------------------------------------------------------------------
HtmlLoopTest == Len(collected) < limit /\ page <= max_pages

Urls(listings) == {listings[i].url : i \in 1..Len(listings)}

\* scrape_page returns the listings of the page; an empty list breaks
HtmlFetchOk ==
    /\ variant = "html" /\ pc = "fetch" /\ HtmlLoopTest
    /\ \E cs \in CardPages :
        /\ cards' = cs
        /\ page_listings' = html_scrape_page(cs)
    /\ fetched' = Append(fetched, page)
    /\ fetch_status' = "ok"
    /\ idx' = 1
    /\ IF page_listings' = <<>>
       THEN Finish(Slice(collected, limit), "Done") /\ UNCHANGED existing_urls
       ELSE /\ existing_urls' = Urls(collected)
            /\ pc' = "extend"
            /\ UNCHANGED << outcome, returned >>
    /\ UNCHANGED << configVars, page, collected, metadata, sleeps, exportVars,
                    extractVars >>
    /\ page_new_count' = 0

\* scrape_page catches requests.RequestException and returns []: break
HtmlFetchFail ==
    /\ variant = "html" /\ pc = "fetch" /\ HtmlLoopTest
    /\ fetched' = Append(fetched, page)
    /\ fetch_status' = "fail"
    /\ cards' = <<>>
    /\ page_listings' = <<>>
    /\ Finish(Slice(collected, limit), "Done")
    /\ UNCHANGED << configVars, page, collected, idx, existing_urls, metadata, sleeps,
                    exportVars, extractVars >>
    /\ page_new_count' = 0

\* one iteration of: for listing in listings
\* a new listing put at the front of collected
HtmlAdmit_Prepend ==
    /\ variant = "html" /\ pc = "extend" /\ idx <= Len(page_listings)
    /\ IF page_listings[idx].url \notin existing_urls
       THEN /\ collected' = <<page_listings[idx]>> \o collected
            /\ IF Len(collected') >= limit
               THEN pc' = "endpage" /\ UNCHANGED idx
               ELSE idx' = idx + 1 /\ UNCHANGED pc
       ELSE /\ idx' = idx + 1
            /\ UNCHANGED << collected, pc >>
    /\ UNCHANGED << configVars, page, cards, page_listings, existing_urls, metadata,
                    fetch_status, fetched, sleeps, outcome, returned, exportVars,
                    extractVars >>
    /\ page_new_count' = IF page_listings[idx].url \notin existing_urls
                          THEN page_new_count + 1 ELSE page_new_count

HtmlAdmit ==
    /\ variant = "html" /\ pc = "extend" /\ idx <= Len(page_listings)
    /\ IF page_listings[idx].url \notin existing_urls
       THEN /\ collected' = Append(collected, page_listings[idx])
            /\ IF Len(collected') >= limit
               THEN pc' = "endpage" /\ UNCHANGED idx
               ELSE idx' = idx + 1 /\ UNCHANGED pc
       ELSE /\ idx' = idx + 1
            /\ UNCHANGED << collected, pc >>
    /\ UNCHANGED << configVars, page, cards, page_listings, existing_urls, metadata,
                    fetch_status, fetched, sleeps, outcome, returned, exportVars,
                    extractVars >>
    /\ page_new_count' = IF page_listings[idx].url \notin existing_urls
                          THEN page_new_count + 1 ELSE page_new_count

\* after the for loop: page += 1 and time.sleep
HtmlEndPage ==
    /\ variant = "html"
    /\ \/ pc = "endpage"
       \/ pc = "extend" /\ idx > Len(page_listings)
    /\ page' = page + 1
    /\ sleeps' = Append(sleeps, page)
    /\ pc' = "fetch"
    /\ UNCHANGED << configVars, collected, cards, page_listings, idx, existing_urls,
                    metadata, fetch_status, fetched, outcome, returned, exportVars,
                    extractVars >>
    /\ UNCHANGED page_new_count

\* the while condition is false: return collected[:limit]
HtmlReturn ==
    /\ variant = "html" /\ pc = "fetch" /\ ~HtmlLoopTest
    /\ Finish(Slice(collected, limit), "Done")
    /\ UNCHANGED << configVars, page, collected, cards, page_listings, idx,
                    existing_urls, metadata, fetch_status, fetched, sleeps,
                    exportVars, extractVars >>
    /\ UNCHANGED page_new_count

\* ------------------------------------------------------------------------
\* src/scripts/bama_scraper.py: scrape_bama
\* ------------------------------------------------------------------------
\* the metadata of a response to the request of page p: total_pages missing
\* (0), equal to p, or larger
Metadatas(p) == [total_pages : {0, p, p + 1}, has_next : BOOLEAN]

\* status 200, JSON decoded, status flag true; an empty ads list breaks
ApiFetchOk ==
    /\ variant = "api" /\ pc = "fetch" /\ Len(collected) < limit
    /\ Len(fetched) < FetchCap
    /\ \E ads \in AdPages, m \in Metadatas(page) :
        /\ cards' = ads
        /\ metadata' = m
    /\ fetched' = Append(fetched, page)
    /\ fetch_status' = "ok"
    /\ idx' = 1
    /\ page_listings' = <<>>
    /\ IF cards' = <<>>
       THEN Finish(collected, "Done")
       ELSE pc' = "extend" /\ UNCHANGED << outcome, returned >>
    /\ UNCHANGED << configVars, page, collected, existing_urls, sleeps, exportVars,
                    extractVars >>
    /\ page_new_count' = IF cards' = <<>> THEN page_new_count ELSE 0

\* a failed fetch that returns nothing of what was collected
ApiFetchFail_Discard ==
    /\ variant = "api" /\ pc = "fetch" /\ Len(collected) < limit
    /\ Len(fetched) < FetchCap
    /\ fetched' = Append(fetched, page)
    /\ fetch_status' = "fail"
    /\ cards' = <<>>
    /\ Finish(<<>>, "Aborted")
    /\ UNCHANGED << configVars, page, collected, page_listings, idx, existing_urls,
                    metadata, sleeps, exportVars, extractVars >>
    /\ UNCHANGED page_new_count

\* RequestException, status code other than 200, JSON decode error or a
\* false status flag: break
ApiFetchFail ==
    /\ variant = "api" /\ pc = "fetch" /\ Len(collected) < limit
    /\ Len(fetched) < FetchCap
    /\ fetched' = Append(fetched, page)
    /\ fetch_status' = "fail"
    /\ cards' = <<>>
    /\ Finish(collected, "Aborted")
    /\ UNCHANGED << configVars, page, collected, page_listings, idx, existing_urls,
                    metadata, sleeps, exportVars, extractVars >>
    /\ UNCHANGED page_new_count

\* not any(c.url == car.url for c in collected_cars)
IsNewUrl(car, cars) == \A i \in 1..Len(cars) : cars[i].url # car.url

\* one iteration of: for ad in ads_data
ApiProcessAd ==
    /\ variant = "api" /\ pc = "extend" /\ idx <= Len(cards)
    /\ LET car == ApiParsed[cards[idx]]
       IN  IF car # <<>> /\ IsNewUrl(car[1], collected)
           THEN /\ collected' = Append(collected, car[1])
                /\ IF Len(collected') >= limit
                   THEN pc' = "endpage" /\ UNCHANGED idx
                   ELSE idx' = idx + 1 /\ UNCHANGED pc
           ELSE /\ idx' = idx + 1
                /\ UNCHANGED << collected, pc >>
    /\ UNCHANGED << configVars, page, cards, page_listings, existing_urls, metadata,
                    fetch_status, fetched, sleeps, outcome, returned, exportVars,
                    extractVars >>
    /\ page_new_count' = IF collected' # collected THEN page_new_count + 1 ELSE page_new_count

\* after the for loop: break on the last page, else page_index += 1 and sleep
ApiEndPage ==
    /\ variant = "api"
    /\ \/ pc = "endpage"
       \/ pc = "extend" /\ idx > Len(cards)
    /\ IF page >= metadata.total_pages \/ ~metadata.has_next
       THEN Finish(collected, "Done") /\ UNCHANGED << page, sleeps >>
       ELSE /\ page' = page + 1
            /\ sleeps' = Append(sleeps, page)
            /\ pc' = "fetch"
            /\ UNCHANGED << outcome, returned >>
    /\ UNCHANGED << configVars, collected, cards, page_listings, idx, existing_urls,
                    metadata, fetch_status, fetched, exportVars, extractVars >>
    /\ UNCHANGED page_new_count

\* the while condition is false: return collected_cars
ApiReturn ==
    /\ variant = "api" /\ pc = "fetch" /\ Len(collected) >= limit
    /\ Finish(collected, "Done")
    /\ UNCHANGED << configVars, page, collected, cards, page_listings, idx,
                    existing_urls, metadata, fetch_status, fetched, sleeps,
                    exportVars, extractVars >>
    /\ UNCHANGED page_new_count

\* ------------------------------------------------------------------------
\* Export: the writer is called with the value the run returned.  (The main
\* functions of the html and api scripts call it only with a non-empty list;
\* the functions themselves accept any list.)
\* ------------------------------------------------------------------------
\* output_path.parent.mkdir(parents=True, exist_ok=True); Workbook(...).close()
MkdirAndWrite ==
    /\ fs' = [fs EXCEPT !.parent = TRUE, !.file = TRUE]
    /\ fs_ops' = <<"mkdir", "write">>
    /\ export' = "written"

\* src/bama_samand_scraper.py: write_excel
write_excel ==
    /\ variant = "samand" /\ pc = "done"
    /\ IF returned = <<>>
       THEN export' = "raised" /\ UNCHANGED << fs, fs_ops >>
       ELSE MkdirAndWrite
    /\ pc' = "exported"
    /\ UNCHANGED << configVars, runVars, extractVars >>

\* a save_to_excel that creates the parent directory before it looks at
\* the list
html_save_to_excel_MkdirFirst ==
    /\ variant = "html" /\ pc = "done"
    /\ IF returned = <<>>
       THEN /\ export' = "returned"
            /\ fs' = [fs EXCEPT !.parent = TRUE]
            /\ fs_ops' = <<"mkdir">>
       ELSE MkdirAndWrite
    /\ pc' = "exported"
    /\ UNCHANGED << configVars, runVars, extractVars >>

\* src/bama_scraper/bama_scraper.py: save_to_excel
html_save_to_excel ==
    /\ variant = "html" /\ pc = "done"
    /\ IF returned = <<>>
       THEN export' = "returned" /\ UNCHANGED << fs, fs_ops >>
       ELSE MkdirAndWrite
    /\ pc' = "exported"
    /\ UNCHANGED << configVars, runVars, extractVars >>

\* src/scripts/bama_scraper.py: save_to_excel; an existing file is removed,
\* or, when it is locked, a timestamped file is written instead
api_save_to_excel ==
    /\ variant = "api" /\ pc = "done"
    /\ IF returned = <<>>
       THEN export' = "returned" /\ UNCHANGED << fs, fs_ops >>
       ELSE /\ export' = "written"
            /\ IF fs.file
               THEN IF fs.locked
                    THEN /\ fs' = [fs EXCEPT !.parent = TRUE, !.alt = TRUE]
                         /\ fs_ops' = <<"mkdir", "write_alt">>
                    ELSE /\ fs' = [fs EXCEPT !.parent = TRUE, !.file = TRUE]
                         /\ fs_ops' = <<"mkdir", "unlink", "write">>
               ELSE /\ fs' = [fs EXCEPT !.parent = TRUE, !.file = TRUE]
                    /\ fs_ops' = <<"mkdir", "write">>
    /\ pc' = "exported"
    /\ UNCHANGED << configVars, runVars, extractVars >>

Next ==
    \/ SamandFetchOk \/ SamandFetchFail \/ SamandCollect \/ SamandEndPage \/ SamandReturn
    \/ HtmlFetchOk \/ HtmlFetchFail \/ HtmlAdmit \/ HtmlEndPage \/ HtmlReturn
    \/ ApiFetchOk \/ ApiFetchFail \/ ApiProcessAd \/ ApiEndPage \/ ApiReturn
    \/ write_excel \/ html_save_to_excel \/ api_save_to_excel

Spec == Init /\ [][Next]_vars

\* ------------------------------------------------------------------------
\* Extraction on its own: one fragment, parsed by one script
\* ------------------------------------------------------------------------
FC == <<"fa_comma">>
SP == <<" ">>
T_250_000_000 == <<"2", "5", "0", ",", "0", "0", "0", ",", "0", "0", "0">>
T_45_000 == <<"4", "5", ",", "0", "0", "0">>
T_p1390 == <<"p1", "p3", "p9", "p0">>

YearParts ==
    { <<>>,
      SP \o W_tolid \o SP \o Y1390 \o FC,
      SP \o W_tolid \o SP \o Y1385 \o FC,
      SP \o W_tolid \o SP \o Y1380 \o FC,
      SP \o W_tolid \o SP \o T_p1390 \o FC }
PriceParts ==
    { <<>>,
      SP \o W_gheymat \o SP \o T_250_000_000 \o SP \o W_toman \o FC }
MileageParts ==
    { <<>>,
      SP \o T_45_000 \o SP \o W_kilometr \o FC }
ColorParts ==
    { <<>>,
      SP \o W_rang \o SP \o W_sefid \o FC,
      SP \o W_meshki \o FC }
TransmissionParts ==
    { <<>>,
      SP \o W_otomat,
      SP \o W_dande \o SP \o W_dasti,
      SP \o W_otomat \o SP \o W_dande \o SP \o W_dasti }

\* the combined text of a card: the year before or after the price
CardTexts ==
    { W_samand \o FC \o (IF yearFirst THEN y \o p ELSE p \o y) \o m \o c \o t :
        y \in YearParts, p \in PriceParts, m \in MileageParts, c \in ColorParts,
        t \in TransmissionParts, yearFirst \in BOOLEAN }

Hrefs ==
    { <<>>, <<"/car/detail/1">>, ORIGIN \o <<"/car/detail/1">> }

PriceEls == { NoEl, El(T_250_000_000 \o SP \o W_toman) }

\* a description sub-fragment longer than the 240 characters of [:240]
LongLen == 241
LongText == [i \in 1..LongLen |-> "x"]
DescEls == { NoEl, El(LongText) }

ExtractCards ==
    { [ PlainCard(text, link, href) EXCEPT !.price_el = pe, !.desc_el = de ] :
        text \in CardTexts, link \in BOOLEAN, href \in Hrefs, pe \in PriceEls,
        de \in DescEls }

ExtractAds ==
    { [ PlainAd(year, url) EXCEPT !.price = pr, !.mileage = mi, !.transmission = tr ] :
        year \in {<<>>, Y1390, Y1385, Y1380, T_p1390},
        url \in {<<>>, <<"/car/detail/1">>, ORIGIN \o <<"/car/detail/1">>},
        pr \in {<<>>, T_250_000_000},
        mi \in {<<>>, T_45_000 \o SP \o W_km},
        tr \in {<<>>, W_otomat, W_dande, W_otomat \o SP \o W_dande} }

\* the scenario fragment: samand, tolid 1390, gheymat 250,000,000 toman,
\* 45,000 kilometr, rang sefid, otomat (Persian commas), no sub-fragments
ScenarioText ==
    W_samand \o FC \o SP \o W_tolid \o SP \o Y1390 \o FC
    \o SP \o W_gheymat \o SP \o T_250_000_000 \o SP \o W_toman \o FC
    \o SP \o T_45_000 \o SP \o W_kilometr \o FC
    \o SP \o W_rang \o SP \o W_sefid \o FC
    \o SP \o W_otomat

ExtractInit ==
    /\ variant \in Variants
    /\ limit = 0
    /\ max_pages = 0
    /\ pc = "extract"
    /\ page = 1
    /\ collected = <<>>
    /\ cards = <<>>
    /\ page_listings = <<>>
    /\ idx = 1
    /\ existing_urls = {}
    /\ metadata = NoMetadata
    /\ fetch_status = "none"
    /\ fetched = <<>>
    /\ sleeps = <<>>
    /\ page_new_count = 0
    /\ outcome = "Running"
    /\ returned = <<>>
    /\ fs = [parent |-> FALSE, file |-> FALSE, locked |-> FALSE, alt |-> FALSE]
    /\ fs_ops = <<>>
    /\ export = "none"
    /\ frag \in IF variant = "api" THEN ExtractAds ELSE ExtractCards
    /\ out = <<>>

\* parse_listing_card(card) / parse_api_listing(ad_data)
Extract ==
    /\ pc = "extract"
    /\ out' = CASE variant = "samand" -> samand_parse_listing_card(frag)
                [] variant = "html" -> html_parse_listing_card(frag)
                [] variant = "api" -> parse_api_listing(frag)
    /\ pc' = "extracted"
    /\ UNCHANGED << configVars, runVars, exportVars, frag >>

ExtractNext == Extract

ExtractSpec == ExtractInit /\ [][ExtractNext]_vars

\* ------------------------------------------------------------------------
\* Properties
\* ------------------------------------------------------------------------
HtmlVariants == {"samand", "html"}

\* C1: every Listing in the result sequence has a production year strictly
\* greater than MIN_YEAR (a fragment whose only year is 1385 yields none).
C1_YearAboveThreshold ==
    \A i \in 1..Len(collected) : collected[i].production_year > MIN_YEAR

\* C2: no two Listings of the result sequence have the same url.
C2_NoDuplicateUrl ==
    \A i, j \in 1..Len(collected) : i < j => collected[i].url # collected[j].url

\* C3: the result sequence never holds more than limit Listings.
C3_AtMostLimit == Len(collected) <= limit

\* C4: the number of page fetches of a run never exceeds the page-count
\* ceiling.
C4_FetchesWithinCeiling == Len(fetched) <= max_pages

\* C5: an HTML run whose last fetch succeeded ends as Done only when the
\* target is reached, the ceiling is exceeded or the page held no fragment.
C5_DoneOnlyByStopCondition ==
    (variant \in HtmlVariants /\ pc = "done" /\ outcome = "Done" /\ fetch_status = "ok")
        => \/ Len(collected) >= limit
           \/ page > max_pages
           \/ cards = <<>>

\* C6: in HTML mode a failed fetch of page N below the ceiling, with the
\* target unmet, leaves the result unchanged and goes on to page N + 1.
C6_HtmlFetchFailureSkipsPage ==
    [][ ( /\ variant \in HtmlVariants
          /\ pc = "fetch"
          /\ fetch_status' = "fail"
          /\ Len(fetched') = Len(fetched) + 1
          /\ page < max_pages
          /\ Len(collected) < limit )
        => ( /\ collected' = collected
             /\ page' = page + 1
             /\ pc' = "fetch"
             /\ outcome' = "Running" ) ]_vars

\* C7: in API mode a failed page fetch aborts the run: the value returned is
\* exactly the result sequence collected before the failing page, and once
\* aborted nothing more is fetched and the result no longer changes.
C7_ApiFailureAborts ==
    [][ /\ ( /\ variant = "api"
             /\ fetch_status' = "fail"
             /\ Len(fetched') = Len(fetched) + 1 )
           => ( /\ outcome' = "Aborted"
                /\ pc' = "done"
                /\ collected' = collected
                /\ returned' = collected )
        /\ outcome = "Aborted"
           => ( /\ fetched' = fetched
                /\ collected' = collected
                /\ returned' = returned
                /\ outcome' = "Aborted" ) ]_vars

\* an API run aborted on its second page or later, after it collected
\* something, and was exported
C7_Witness ==
    /\ variant = "api"
    /\ outcome = "Aborted"
    /\ pc = "exported"
    /\ Len(fetched) >= 2
    /\ Len(returned) >= 1

C9_ScenarioExtraction ==
    ( /\ pc = "extracted"
      /\ variant \in HtmlVariants
      /\ frag.text = ScenarioText
      /\ frag.price_el = NoEl )
    => /\ out # <<>>
       /\ out[1].production_year = 1390
       /\ variant = "samand" => out[1].price = <<250000000>>
       /\ variant = "html" => out[1].price = Filter(T_250_000_000, DigitChars)
       /\ variant = "samand" => out[1].mileage = <<45000>>
       /\ variant = "html" => out[1].mileage = Filter(T_45_000, DigitChars)
       /\ out[1].color = W_sefid
       /\ out[1].transmission = "Automatic"

\* the raw link of a fragment, <<>> when it has none
RawLink(f) ==
    IF variant = "api" THEN f.url
    ELSE IF f.link THEN f.href ELSE <<>>

\* C10: the url of every Listing is the raw link when that is absolute, the
\* origin followed by the raw link when it is relative, and the base search
\* URL when the fragment has no link; it is never empty.
C10_CanonicalUrl ==
    (pc = "extracted" /\ out # <<>>)
    => /\ out[1].url # <<>>
       /\ out[1].url = IF RawLink(frag) = <<>> THEN BASE_URL
                       ELSE IF Head(RawLink(frag)) = "http" THEN RawLink(frag)
                       ELSE ORIGIN \o RawLink(frag)

\* the list the for loop of the current page runs over
LoopList == IF variant = "api" THEN cards ELSE page_listings

\* C11: the pages requested are 1, 2, 3, ... in this order, none twice, and
\* a page is requested only when the loop over the fragments of the page
\* before it has run to its end.
C11_PagesInOrder ==
    [][ /\ \A i \in 1..Len(fetched') : fetched'[i] = i
        /\ Len(fetched') > Len(fetched)
           => ( /\ fetched' = Append(fetched, page)
                /\ pc = "fetch"
                /\ idx > Len(LoopList) ) ]_vars

\* three pages were requested, a failed one was skipped without a sleep and
\* the third was parsed
C11_Witness ==
    /\ Len(fetched) >= 3
    /\ fetch_status = "ok"
    /\ Len(collected) >= 1
    /\ Len(sleeps) < Len(fetched) - 1

\* the loop asks for the page at its head when the primed state is reached
NextFetchDue ==
    CASE variant = "samand" -> page' <= max_pages
      [] variant = "html"   -> Len(collected') < limit /\ page' <= max_pages
      [] OTHER              -> Len(collected') < limit

\* C12: every sleep comes directly after a page that added at least one
\* listing while the target is not met, and the next page is fetched after
\* it: no sleep once the target is met, after a page that added nothing, or
\* after the last page the ceiling allows.
C12_SleepOnlyBeforeNextFetch ==
    [][ sleeps' # sleeps
        => /\ page_new_count >= 1
           /\ Len(collected) < limit
           /\ NextFetchDue ]_vars

\* the keywords of each script: "dande", "manual" / "otomat", "automatic" in
\* derive_transmission and the api extract_transmission; TRANSMISSION_PATTERNS
\* in the html script ("dande\s*dasti" holds "dasti")
ManualWords == IF variant = "html" THEN {W_dasti, W_manual} ELSE {W_dande, W_manual}
AutomaticWords ==
    IF variant = "html" THEN {W_otomat, W_automatic, W_otomatik}
    ELSE {W_otomat, W_automatic}

\* the text the transmission is read from
ClassifiedText == IF variant = "api" THEN frag.transmission ELSE frag.text
HasManual == \E w \in ManualWords : Contains(Lower(ClassifiedText), w)
HasAutomatic == \E w \in AutomaticWords : Contains(Lower(ClassifiedText), w)

C14_DescriptionAtMost240 ==
    out # <<>> => Len(out[1].description) <= 240

\* a non-empty text of the characters 0-9 only
IsAsciiNumber(text) == text # <<>> /\ \A i \in 1..Len(text) : IsAsciiDigit(text[i])

\* C15: price and mileage of a listing are made of ASCII digits only (a
\* non-negative integer) or are the sentinel of the field (no value or
\* "Agreement" for the price, zero for the mileage): no separator, unit,
\* other digit or free text stays in them.
C15_NumericFieldsClean ==
    out # <<>>
    => IF variant = "samand"
       THEN /\ out[1].price = <<>> \/ out[1].price[1] >= 0
            /\ out[1].mileage = <<>> \/ out[1].mileage[1] >= 0
       ELSE /\ out[1].price = AGREEMENT \/ IsAsciiNumber(out[1].price)
            /\ IsAsciiNumber(out[1].mileage)

\* the listing of the fragment the loop is at
CurrentItem == IF variant = "api" THEN ApiParsed[cards[idx]][1] ELSE page_listings[idx]

\* C16: every step leaves the result sequence as it is or appends one
\* listing at its end, the one of the fragment the loop is at on the page
\* fetched last; the loop moves forward only (the page number never goes
\* down, the position in a page goes back to the start only at a fetch), and
\* the value returned is the sequence as it stands at the end.
C16_AppendOnlyInOrder ==
    [][ /\ \/ collected' = collected
           \/ /\ idx \in 1..Len(LoopList)
              /\ fetch_status = "ok"
              /\ fetched[Len(fetched)] = page
              /\ collected' = Append(collected, CurrentItem)
        /\ page' >= page
        /\ fetched' = fetched => idx' >= idx
        /\ (idx' = idx /\ fetched' = fetched /\ collected' # collected)
           => Len(collected') >= limit
        /\ (pc' = "done" /\ pc # "done") => returned' = collected' ]_vars

\* a finished run that returned two listings, the second from a later page
\* than the first
C16_Witness ==
    /\ pc = "done"
    /\ Len(returned) = 2
    /\ returned[1] # returned[2]
    /\ Len(fetched) >= 2
    /\ page_new_count = 1

====
